---- MODULE Spec2Model ----
(***************************************************************************)
(* Model of the thread / vote state machine of the trust-score contract:   *)
(* src/src/application/service/impl_thread.rs (ThreadFeatures for          *)
(* ThreadScoreContract) and the space record of src/src/models/space.rs.   *)
(*                                                                         *)
(* Every public method is one action.  A method is an operator over the    *)
(* contract's collections that executes the method's statements in source  *)
(* order and stops at the first failing assert!, returning the collections *)
(* as they are at that statement: nothing is rolled back by the model, so  *)
(* "a failed call writes nothing" is a property of the statement order.    *)
(***************************************************************************)
EXTENDS Integers, Sequences, FiniteSets, TLC

VARIABLES
  user_metadata_by_id,    \* LookupMap<UserId, JsonUser>
  thread_metadata_by_id,  \* LookupMap<ThreadId, ThreadMetadata>
  space_metadata_by_id,   \* map SpaceId -> SpaceMetadata
  threads_per_user,       \* LookupMap<UserId, UnorderedSet<ThreadId>>
  threads_per_space,      \* LookupMap<SpaceId, UnorderedSet<ThreadId>>
  block_timestamp_ms,     \* env::block_timestamp_ms()
  result                  \* the last call: its method, its outcome, what it returned

vars == <<user_metadata_by_id, thread_metadata_by_id, space_metadata_by_id,
          threads_per_user, threads_per_space, block_timestamp_ms, result>>

store == <<user_metadata_by_id, thread_metadata_by_id, space_metadata_by_id,
           threads_per_user, threads_per_space>>

-----------------------------------------------------------------------------
(* Bounds of the model *)

\* the clock runs over 0..MaxTime
MaxTime == 3
\* create_thread is offered 0..MaxOptions options
MaxOptions == 4

-----------------------------------------------------------------------------
(* Inputs *)

Users == {"alice", "bob"}
Roles == {"Verified", "Unverified"}
\* balances a user is registered with
RegisterPoints == {40}
VotePoints == {10, 11, 40}
ChoiceNumbers == {0, 2}
OptionText == <<"yes", "no", "maybe", "other", "none", "all">>
Options(n) == SubSeq(OptionText, 1, n)

\* the arguments create_thread is called with (Option<String>: << >> is None,
\* <<s>> is Some(s)); the two titles derive the same thread id for a signer
CreateRequests ==
  { [title |-> "Poll", content |-> <<"body">>, media_link |-> << >>, init_point |-> 20,
     space_name |-> "General", start_time |-> 1, end_time |-> 3],
    [title |-> "poll", content |-> << >>, media_link |-> <<"link">>, init_point |-> 0,
     space_name |-> "Sports", start_time |-> 2, end_time |-> 1] }
\* create_thread calls under one space name with two titles, so that one signer
\* can own two threads of the space
SpaceRequests ==
  { [title |-> "Poll", content |-> <<"body">>, media_link |-> << >>, init_point |-> 20,
     space_name |-> "General", start_time |-> 1, end_time |-> 3],
    [title |-> "Quiz", content |-> << >>, media_link |-> << >>, init_point |-> 0,
     space_name |-> "General", start_time |-> 1, end_time |-> 3],
    [title |-> "Quiz", content |-> << >>, media_link |-> <<"link">>, init_point |-> 0,
     space_name |-> "Sports", start_time |-> 2, end_time |-> 1] }
\* create_thread calls of one signer under six titles, so that a signer's index
\* runs over more than one page
PageTitles == {"a", "b", "c", "d", "e", "f"}
PageRequests ==
  { [title |-> t, content |-> << >>, media_link |-> << >>, init_point |-> 0,
     space_name |-> "General", start_time |-> 1, end_time |-> 3] : t \in PageTitles }
\* the start and limit get_all_threads_per_user_own is called with (Option<u32>)
PageStarts == {<< >>, <<0>>, <<5>>}
PageLimits == {<< >>, <<5>>}
AllRequests == CreateRequests \cup SpaceRequests
Titles == {r.title : r \in CreateRequests}

-----------------------------------------------------------------------------
(* Maps and sets of the store *)

EmptyMap == << >>
Has(m, k) == k \in DOMAIN m
Put(m, k, v) == [x \in (DOMAIN m) \cup {k} |-> IF x = k THEN v ELSE m[x]]

\* (mutant) an insert into a set that already has elements is dropped
SetInsert_KeepsFirst(s, e) == IF s = << >> THEN <<e>> ELSE s

\* UnorderedSet::insert: the elements in insertion order, no element twice
SetInsert(s, e) == IF \E i \in 1..Len(s) : s[i] = e THEN s ELSE Append(s, e)
SetOf(s) == {s[i] : i \in 1..Len(s)}

-----------------------------------------------------------------------------
(* Identifiers *)

\* to_lowercase of the names the model uses
Lower(s) ==
  CASE s = "Poll" -> "poll"
    [] s = "General" -> "general"
    [] s = "Sports" -> "sports"
    [] OTHER -> s

\* the thread id derived from the title and the creator
convert_title_to_id(title, account_id) == <<Lower(title), account_id>>
\* the space id derived from the space name alone
convert_title_to_id_no_account(name) == Lower(name)

ThreadIds == {convert_title_to_id(t, u) : t \in Titles, u \in Users}
SpaceThreadIds == {convert_title_to_id(r.title, u) : r \in SpaceRequests, u \in Users}

-----------------------------------------------------------------------------
(* The contract's collections as one value, and the outcome of a call *)

Store == [user_metadata_by_id |-> user_metadata_by_id,
          thread_metadata_by_id |-> thread_metadata_by_id,
          space_metadata_by_id |-> space_metadata_by_id,
          threads_per_user |-> threads_per_user,
          threads_per_space |-> threads_per_space]

\* what a call returns is << >> (nothing, or None) or <<v>> with v a record: a
\* ThreadMetadata, a SpaceMetadata, a ThreadState or a String
ThreadState(s) == [ThreadState |-> s]
String(s) == [String |-> s]

\* a failed assert!: the call stops with the collections as they are
Abort(S, e) == [st |-> S, err |-> e, ret |-> << >>]
Done(S, r) == [st |-> S, err |-> "OK", ret |-> r]

-----------------------------------------------------------------------------
(* SpaceFeatures::create_space *)

create_space(S, space_name, signer, now) ==
  LET space_id == convert_title_to_id_no_account(space_name)
      space_meta == [space_id |-> space_id,
                     space_name |-> space_name,
                     creator_id |-> signer,
                     created_at |-> now,
                     followed_users |-> << >>,
                     total_point |-> 0]
  IN IF Has(S.space_metadata_by_id, space_id)
       THEN Abort(S, "AlreadyExists")
       ELSE Done([S EXCEPT !.space_metadata_by_id = Put(@, space_id, space_meta)],
                 <<space_meta>>)

-----------------------------------------------------------------------------
(* ThreadFeatures::create_thread *)

\* (mutant) the upper limit is off by one: <= 4 where the source has < 4
ChoiceCountOk_UpToFour(options) == Len(options) > 1 /\ Len(options) <= 4

\* assert!(options.len() > 1) and assert!(options.len() < 4)
ChoiceCountOk(options) == Len(options) > 1 /\ Len(options) < 4

\* (mutant) the choices are keyed from 1
ChoicesMap_FromOne(options) == [idx \in 1..Len(options) |-> options[idx]]

\* choices_map.insert(idx as u8, option) for every enumerated option
ChoicesMap(options) == [idx \in 0..(Len(options) - 1) |-> options[idx + 1]]

\* assert!(creator_json.total_point > init_point)
StakeOk(total_point, init_point) == total_point > init_point

\* (mutant) the existence check lets every id through
ThreadIsNew_Always(S, thread_id) == TRUE

\* assert!(self.thread_metadata_by_id.get(&thread_id).is_none())
ThreadIsNew(S, thread_id) == ~Has(S.thread_metadata_by_id, thread_id)

\* (mutant) the record is built with a total of 0 for every choice
NewThreadMeta_Seeded(thread_id, creator_id, req, options, now) ==
  [thread_id |-> thread_id,
   title |-> req.title,
   media_link |-> req.media_link,
   creator_id |-> creator_id,
   content |-> req.content,
   init_point |-> req.init_point,
   space_name |-> req.space_name,
   start_time |-> req.start_time,
   end_time |-> req.end_time,
   created_at |-> now,
   choices_count |-> Len(options) % 256,
   choices_map |-> ChoicesMap(options),
   user_votes_map |-> EmptyMap,
   choices_rating |-> [c \in DOMAIN ChoicesMap(options) |-> 0],
   last_id |-> 0]

\* the ThreadMetadata value create_thread builds
NewThreadMeta(thread_id, creator_id, req, options, now) ==
  [thread_id |-> thread_id,
   title |-> req.title,
   media_link |-> req.media_link,
   creator_id |-> creator_id,
   content |-> req.content,
   init_point |-> req.init_point,
   space_name |-> req.space_name,
   start_time |-> req.start_time,
   end_time |-> req.end_time,
   created_at |-> now,
   choices_count |-> Len(options) % 256,
   choices_map |-> ChoicesMap(options),
   user_votes_map |-> EmptyMap,
   choices_rating |-> EmptyMap,
   last_id |-> 0]

\* (mutant) the space is created for every thread
IsSpaceIdExists_Never(S, space_id) == FALSE

\* let is_space_id_exists = self.space_metadata_by_id.contains_key(&space_id)
IsSpaceIdExists(S, space_id) == Has(S.space_metadata_by_id, space_id)

\* (mutant) the creator's record is updated without the debit
CreatorAfterCreate_NoDebit(json_creator, init_point, thread_id) ==
  [json_creator EXCEPT !.threads_owned = @ + 1,
                       !.threads_list = Append(@, thread_id)]

\* (mutant) the creator's record is updated without the count of owned threads
CreatorAfterCreate_NoCount(json_creator, init_point, thread_id) ==
  [json_creator EXCEPT !.total_point = @ - init_point,
                       !.threads_list = Append(@, thread_id)]

\* threads_owned += 1; total_point -= init_point; threads_list.push(thread_id)
CreatorAfterCreate(json_creator, init_point, thread_id) ==
  [json_creator EXCEPT !.threads_owned = @ + 1,
                       !.total_point = @ - init_point,
                       !.threads_list = Append(@, thread_id)]

\* (mutant) the record that is stored has its choice totals seeded with 0, the
\* record that is returned has not
CreateThreadWrites_StoresSeeded(S, creator_id, req, options, now) ==
  LET thread_id == convert_title_to_id(req.title, creator_id)
      thread_meta == NewThreadMeta(thread_id, creator_id, req, options, now)
      seeded == [thread_meta EXCEPT
                   !.choices_rating = [c \in DOMAIN thread_meta.choices_map |-> 0]]
      user_threads_list == IF Has(S.threads_per_user, creator_id)
                             THEN S.threads_per_user[creator_id] ELSE << >>
      S1 == [S EXCEPT !.threads_per_user =
                         Put(@, creator_id, SetInsert(user_threads_list, thread_id))]
      S2 == [S1 EXCEPT !.thread_metadata_by_id = Put(@, thread_id, seeded)]
      space_id == convert_title_to_id_no_account(req.space_name)
      R3 == IF ~IsSpaceIdExists(S2, space_id)
              THEN create_space(S2, req.space_name, creator_id, now)
              ELSE Done(S2, << >>)
      S3 == R3.st
      space_threads_list == IF Has(S3.threads_per_space, space_id)
                              THEN S3.threads_per_space[space_id] ELSE << >>
      S4 == [S3 EXCEPT !.threads_per_space =
                          Put(@, space_id, SetInsert(space_threads_list, thread_id))]
      S5 == [S4 EXCEPT !.user_metadata_by_id =
                          Put(@, creator_id,
                              CreatorAfterCreate(S4.user_metadata_by_id[creator_id],
                                                 req.init_point, thread_id))]
  IN IF R3.err # "OK" THEN Abort(S3, R3.err) ELSE Done(S5, <<thread_meta>>)

\* the writes of create_thread, in source order, after every assert! passed
CreateThreadWrites(S, creator_id, req, options, now) ==
  LET thread_id == convert_title_to_id(req.title, creator_id)
      thread_meta == NewThreadMeta(thread_id, creator_id, req, options, now)
      user_threads_list == IF Has(S.threads_per_user, creator_id)
                             THEN S.threads_per_user[creator_id] ELSE << >>
      S1 == [S EXCEPT !.threads_per_user =
                         Put(@, creator_id, SetInsert(user_threads_list, thread_id))]
      S2 == [S1 EXCEPT !.thread_metadata_by_id = Put(@, thread_id, thread_meta)]
      space_id == convert_title_to_id_no_account(req.space_name)
      R3 == IF ~IsSpaceIdExists(S2, space_id)
              THEN create_space(S2, req.space_name, creator_id, now)
              ELSE Done(S2, << >>)
      S3 == R3.st
      space_threads_list == IF Has(S3.threads_per_space, space_id)
                              THEN S3.threads_per_space[space_id] ELSE << >>
      S4 == [S3 EXCEPT !.threads_per_space =
                          Put(@, space_id, SetInsert(space_threads_list, thread_id))]
      S5 == [S4 EXCEPT !.user_metadata_by_id =
                          Put(@, creator_id,
                              CreatorAfterCreate(S4.user_metadata_by_id[creator_id],
                                                 req.init_point, thread_id))]
  IN IF R3.err # "OK" THEN Abort(S3, R3.err) ELSE Done(S5, <<thread_meta>>)

\* (mutant) the caller's role and stake are checked after the user index and the
\* thread record are written
create_thread_LateChecks(S, creator_id, req, options, now) ==
  LET thread_id == convert_title_to_id(req.title, creator_id)
      S1 == [S EXCEPT !.threads_per_user =
                         Put(@, creator_id,
                             SetInsert(IF Has(S.threads_per_user, creator_id)
                                         THEN S.threads_per_user[creator_id] ELSE << >>,
                                       thread_id))]
      S2 == [S1 EXCEPT !.thread_metadata_by_id =
                          Put(@, thread_id,
                              NewThreadMeta(thread_id, creator_id, req, options, now))]
  IN IF ~ChoiceCountOk(options) THEN Abort(S, "InvalidChoiceCount")
     ELSE IF ~Has(S.user_metadata_by_id, creator_id) THEN Abort(S, "UserNotRegistered")
     ELSE IF ~ThreadIsNew(S, thread_id) THEN Abort(S, "ThreadAlreadyExists")
     ELSE IF S.user_metadata_by_id[creator_id].role # "Verified"
       THEN Abort(S2, "NotVerified")
     ELSE IF ~StakeOk(S.user_metadata_by_id[creator_id].total_point, req.init_point)
       THEN Abort(S2, "InsufficientStake")
     ELSE CreateThreadWrites(S, creator_id, req, options, now)

create_thread(S, creator_id, req, options, now) ==
  LET thread_id == convert_title_to_id(req.title, creator_id)
  IN IF ~ChoiceCountOk(options) THEN Abort(S, "InvalidChoiceCount")
     ELSE IF ~Has(S.user_metadata_by_id, creator_id) THEN Abort(S, "UserNotRegistered")
     ELSE IF S.user_metadata_by_id[creator_id].role # "Verified" THEN Abort(S, "NotVerified")
     ELSE IF ~StakeOk(S.user_metadata_by_id[creator_id].total_point, req.init_point)
       THEN Abort(S, "InsufficientStake")
     ELSE IF ~ThreadIsNew(S, thread_id) THEN Abort(S, "ThreadAlreadyExists")
     ELSE CreateThreadWrites(S, creator_id, req, options, now)

-----------------------------------------------------------------------------
(* ThreadFeatures::get_thread_metadata_by_thread_id *)

get_thread_metadata_by_thread_id(S, thread_id) ==
  IF Has(S.thread_metadata_by_id, thread_id)
    THEN Done(S, <<S.thread_metadata_by_id[thread_id]>>)
    ELSE Done(S, << >>)

-----------------------------------------------------------------------------
(* ThreadFeatures::get_all_threads_per_user_own *)

\* Option::unwrap_or
UnwrapOr(opt, default) == IF opt = << >> THEN default ELSE opt[1]

\* (mutant) the page starts one element early: skip(start - 1) for a start above 0
SkipTake_OneEarly(s, start, limit) ==
  LET from == IF start > 0 THEN start - 1 ELSE 0
      rest == IF Len(s) > from THEN Len(s) - from ELSE 0
      k == IF limit < rest THEN limit ELSE rest
  IN [i \in 1..k |-> s[from + i]]

\* iter().skip(start).take(limit): at most limit elements of s after its first
\* start elements, in the order of s
SkipTake(s, start, limit) ==
  LET rest == IF Len(s) > start THEN Len(s) - start ELSE 0
      k == IF limit < rest THEN limit ELSE rest
  IN [i \in 1..k |-> s[start + i]]

\* threads_per_user.get(&user_id).unwrap() stops the call when the user has no
\* index; every id of the page is looked up with get(&thread_id).unwrap()
get_all_threads_per_user_own(S, user_id, start, limit) ==
  IF ~Has(S.threads_per_user, user_id) THEN Abort(S, "UserHasNoThreads")
  ELSE LET thread_array == S.threads_per_user[user_id]
           page == SkipTake(thread_array, UnwrapOr(start, 0), UnwrapOr(limit, 5))
       IN IF \E i \in 1..Len(page) : ~Has(S.thread_metadata_by_id, page[i])
            THEN Abort(S, "ThreadNotFound")
            ELSE Done(S, [i \in 1..Len(page) |-> S.thread_metadata_by_id[page[i]]])

-----------------------------------------------------------------------------
(* ThreadFeatures::get_thread_status *)

\* (mutant) a thread opens at its start_time: >= where the source has >
ThreadStateAt_OpenAtStart(current_time, start_time, end_time) ==
  IF current_time >= end_time THEN "Closed"
  ELSE IF current_time >= start_time THEN "Open"
  ELSE "Upcoming"

\* (mutant) a thread is still open at its end_time: > where the source has >=
ThreadStateAt_OpenAtEnd(current_time, start_time, end_time) ==
  IF current_time > end_time THEN "Closed"
  ELSE IF current_time > start_time THEN "Open"
  ELSE "Upcoming"

\* the three returns of get_thread_status, in source order
ThreadStateAt(current_time, start_time, end_time) ==
  IF current_time >= end_time THEN "Closed"
  ELSE IF current_time > start_time THEN "Open"
  ELSE "Upcoming"

get_thread_status(S, thread_id, now) ==
  IF ~Has(S.thread_metadata_by_id, thread_id) THEN Abort(S, "ThreadNotFound")
  ELSE LET thread_found == S.thread_metadata_by_id[thread_id]
       IN Done(S, <<ThreadState(ThreadStateAt(now, thread_found.start_time,
                                              thread_found.end_time))>>)

-----------------------------------------------------------------------------
(* ThreadFeatures::vote_thread *)

\* assert!(point > 10)
PointOk(point) == point > 10

\* (mutant) the whole balance may be spent: >= where the source has >
BalanceOk_AllowsEqual(total_point, point) == total_point >= point

\* assert!(json_user.total_point > point)
BalanceOk(total_point, point) == total_point > point

\* assert!(thread_metadata.choices_map.get(&choice_number).is_some())
ChoiceOk(thread_metadata, choice_number) == Has(thread_metadata.choices_map, choice_number)

\* (mutant) the vote map is not consulted
NotYetVoted_Always(thread_metadata, voter) == TRUE

\* assert!(thread_metadata.user_votes_map.get_key_value(&voter).is_none())
NotYetVoted(thread_metadata, voter) == ~Has(thread_metadata.user_votes_map, voter)

\* (mutant) a vote also advances the thread's last_id
ThreadAfterVote_BumpsLastId(thread_metadata, voter, choice_number, point) ==
  [thread_metadata EXCEPT
     !.user_votes_map = Put(@, voter, <<choice_number, point>>),
     !.last_id = @ + 1]

\* user_votes_map.insert(voter, (choice_number, point)), and the choice's total
\* raised by point if choices_rating holds a total for the choice
ThreadAfterVote(thread_metadata, voter, choice_number, point) ==
  [thread_metadata EXCEPT
     !.user_votes_map = Put(@, voter, <<choice_number, point>>),
     !.choices_rating = IF Has(@, choice_number)
                          THEN Put(@, choice_number, @[choice_number] + point)
                          ELSE @]

\* (mutant) the voter's record is written back without the debit
VoterAfterVote_NoDebit(json_user, point) == json_user

\* new_json_user.total_point -= point
VoterAfterVote(json_user, point) == [json_user EXCEPT !.total_point = @ - point]

\* the writes of vote_thread, in source order, after every assert! passed
VoteThreadWrites(S, voter, thread_id, choice_number, point) ==
  LET found_voter == S.user_metadata_by_id[voter]
      thread_metadata == ThreadAfterVote(S.thread_metadata_by_id[thread_id],
                                         voter, choice_number, point)
      S1 == [S EXCEPT !.thread_metadata_by_id = Put(@, thread_id, thread_metadata)]
      S2 == [S1 EXCEPT !.user_metadata_by_id =
                          Put(@, voter, VoterAfterVote(found_voter, point))]
  IN Done(S2, <<String("OK")>>)

\* (mutant) the thread is looked up before the voter's balance is checked
vote_thread_ThreadFirst(S, voter, thread_id, choice_number, point, now) ==
  IF ~PointOk(point) THEN Abort(S, "PointTooLow")
  ELSE IF ~Has(S.user_metadata_by_id, voter) THEN Abort(S, "UserNotRegistered")
  ELSE IF ~Has(S.thread_metadata_by_id, thread_id) THEN Abort(S, "ThreadNotFound")
  ELSE IF ~BalanceOk(S.user_metadata_by_id[voter].total_point, point)
    THEN Abort(S, "InsufficientBalance")
  ELSE LET cur_thread_state == get_thread_status(S, thread_id, now)
           thread_metadata == S.thread_metadata_by_id[thread_id]
       IN IF cur_thread_state.ret[1] = ThreadState("Upcoming") THEN Abort(S, "ThreadNotOpen")
          ELSE IF cur_thread_state.ret[1] = ThreadState("Closed") THEN Abort(S, "ThreadClosed")
          ELSE IF ~ChoiceOk(thread_metadata, choice_number) THEN Abort(S, "InvalidChoice")
          ELSE IF ~NotYetVoted(thread_metadata, voter) THEN Abort(S, "AlreadyVoted")
          ELSE VoteThreadWrites(S, voter, thread_id, choice_number, point)

vote_thread(S, voter, thread_id, choice_number, point, now) ==
  IF ~PointOk(point) THEN Abort(S, "PointTooLow")
  ELSE IF ~Has(S.user_metadata_by_id, voter) THEN Abort(S, "UserNotRegistered")
  ELSE IF ~BalanceOk(S.user_metadata_by_id[voter].total_point, point)
    THEN Abort(S, "InsufficientBalance")
  ELSE IF ~Has(S.thread_metadata_by_id, thread_id) THEN Abort(S, "ThreadNotFound")
  ELSE LET cur_thread_state == get_thread_status(S, thread_id, now)
           thread_metadata == S.thread_metadata_by_id[thread_id]
       IN IF cur_thread_state.err # "OK" THEN Abort(S, cur_thread_state.err)
          ELSE IF cur_thread_state.ret[1] = ThreadState("Upcoming") THEN Abort(S, "ThreadNotOpen")
          ELSE IF cur_thread_state.ret[1] = ThreadState("Closed") THEN Abort(S, "ThreadClosed")
          ELSE IF ~ChoiceOk(thread_metadata, choice_number) THEN Abort(S, "InvalidChoice")
          ELSE IF ~NotYetVoted(thread_metadata, voter) THEN Abort(S, "AlreadyVoted")
          ELSE VoteThreadWrites(S, voter, thread_id, choice_number, point)

-----------------------------------------------------------------------------
(* ThreadFeatures::end_thread: the body is comments and None *)

\* (mutant) end_thread gives the creator of a stored thread the stake back
end_thread_Refunds(S, thread_id) ==
  IF ~Has(S.thread_metadata_by_id, thread_id) THEN Done(S, << >>)
  ELSE LET thread_found == S.thread_metadata_by_id[thread_id]
           json_user == S.user_metadata_by_id[thread_found.creator_id]
       IN Done([S EXCEPT !.user_metadata_by_id =
                            Put(@, thread_found.creator_id,
                                [json_user EXCEPT !.total_point = @ + thread_found.init_point])],
               << >>)

end_thread(S, thread_id) == Done(S, << >>)

-----------------------------------------------------------------------------
(* Registration of a user: outside ThreadFeatures, a record with no thread *)

register_user(S, user_id, role, total_point) ==
  IF Has(S.user_metadata_by_id, user_id) THEN Abort(S, "AlreadyRegistered")
  ELSE Done([S EXCEPT !.user_metadata_by_id =
                         Put(@, user_id, [role |-> role,
                                          total_point |-> total_point,
                                          threads_owned |-> 0,
                                          threads_list |-> << >>])],
            << >>)

-----------------------------------------------------------------------------
(* The state machine *)

Init ==
  /\ user_metadata_by_id = EmptyMap
  /\ thread_metadata_by_id = EmptyMap
  /\ space_metadata_by_id = EmptyMap
  /\ threads_per_user = EmptyMap
  /\ threads_per_space = EmptyMap
  /\ block_timestamp_ms = 0
  /\ result = [op |-> "new", err |-> "OK", ret |-> << >>]

\* the call's outcome becomes the state: its collections and what it returned
Commit(op, r) ==
  /\ user_metadata_by_id' = r.st.user_metadata_by_id
  /\ thread_metadata_by_id' = r.st.thread_metadata_by_id
  /\ space_metadata_by_id' = r.st.space_metadata_by_id
  /\ threads_per_user' = r.st.threads_per_user
  /\ threads_per_space' = r.st.threads_per_space
  /\ result' = [op |-> op, err |-> r.err, ret |-> r.ret]
  /\ UNCHANGED block_timestamp_ms

Tick ==
  /\ block_timestamp_ms < MaxTime
  /\ block_timestamp_ms' = block_timestamp_ms + 1
  /\ UNCHANGED <<store, result>>

RegisterUser(user_id, role, total_point) ==
  /\ ~Has(user_metadata_by_id, user_id)
  /\ Commit("register_user",
         register_user(Store, user_id, role, total_point))

CreateThread(signer, req, n) ==
  LET r == create_thread(Store, signer, req, Options(n), block_timestamp_ms)
  IN Commit("create_thread", r)

GetThreadMetadata(thread_id) ==
  Commit("get_thread_metadata_by_thread_id",
         get_thread_metadata_by_thread_id(Store, thread_id))

GetAllThreadsPerUserOwn(user_id, start, limit) ==
  Commit("get_all_threads_per_user_own",
         get_all_threads_per_user_own(Store, user_id, start, limit))

GetThreadStatus(thread_id) ==
  Commit("get_thread_status",
         get_thread_status(Store, thread_id, block_timestamp_ms))

VoteThread(signer, thread_id, choice_number, point) ==
  Commit("vote_thread",
         vote_thread(Store, signer, thread_id, choice_number, point, block_timestamp_ms))

EndThread(thread_id) ==
  Commit("end_thread", end_thread(Store, thread_id))

Next ==
  \/ Tick
  \/ \E u \in Users, role \in Roles, p \in RegisterPoints : RegisterUser(u, role, p)
  \/ \E u \in Users, req \in CreateRequests, n \in 0..MaxOptions : CreateThread(u, req, n)
  \/ \E t \in ThreadIds : GetThreadMetadata(t)
  \/ \E u \in Users, start \in PageStarts, limit \in PageLimits :
       GetAllThreadsPerUserOwn(u, start, limit)
  \/ \E t \in ThreadIds : GetThreadStatus(t)
  \/ \E u \in Users, t \in ThreadIds, c \in ChoiceNumbers, p \in VotePoints :
       VoteThread(u, t, c, p)
  \/ \E t \in ThreadIds : EndThread(t)

Spec == Init /\ [][Next]_vars

\* the calls that create threads and spaces, with two titles per signer, at one
\* clock value
NextSpaces ==
  \/ \E u \in Users, role \in Roles, p \in RegisterPoints : RegisterUser(u, role, p)
  \/ \E u \in Users, req \in SpaceRequests, n \in 0..MaxOptions : CreateThread(u, req, n)
  \/ \E t \in SpaceThreadIds : GetThreadMetadata(t)

SpecSpaces == Init /\ [][NextSpaces]_vars

\* the requests a signer pages over: six titles for alice, one of them for bob
PageRequestsOf(u) ==
  IF u = "alice" THEN PageRequests ELSE {r \in PageRequests : r.title = "a"}

\* the calls that fill a signer's index beyond one page and read it page by page,
\* at one clock value
NextPages ==
  \/ \E u \in Users, role \in Roles, p \in RegisterPoints : RegisterUser(u, role, p)
  \/ \E u \in Users : \E req \in PageRequestsOf(u) : CreateThread(u, req, 2)
  \/ \E u \in Users, start \in PageStarts, limit \in PageLimits :
       GetAllThreadsPerUserOwn(u, start, limit)

SpecPages == Init /\ [][NextPages]_vars

-----------------------------------------------------------------------------
(* Vocabulary of the properties *)

Stored(t) == Has(thread_metadata_by_id, t)
Votes(t) == thread_metadata_by_id[t].user_votes_map
HasVoted(v, t) == Stored(t) /\ Has(Votes(t), v)
Registered(u) == Has(user_metadata_by_id, u)
Balance(u) == user_metadata_by_id[u].total_point
StatusNow(t) == ThreadStateAt(block_timestamp_ms, thread_metadata_by_id[t].start_time,
                              thread_metadata_by_id[t].end_time)
Failed(op) == result.op = op /\ result.err # "OK"
Succeeded(op) == result.op = op /\ result.err = "OK"
\* the step is a call of op: a call leaves the clock alone, Tick leaves result alone
Called(op) == block_timestamp_ms' = block_timestamp_ms /\ result'.op = op
\* the step is not the create_thread / vote_thread call with these arguments; the
\* call's outcome is compared first, its collections after
NotCreateThread(u, req, n) ==
  \/ result'.err # create_thread(Store, u, req, Options(n), block_timestamp_ms).err
  \/ ~CreateThread(u, req, n)
NotVoteThread(v, t, c, p) ==
  \/ result'.err # vote_thread(Store, v, t, c, p, block_timestamp_ms).err
  \/ ~VoteThread(v, t, c, p)
\* every balance but u's is what it was, and no user record appeared or vanished
OthersKeepBalance(u) ==
  /\ DOMAIN user_metadata_by_id' = DOMAIN user_metadata_by_id
  /\ \A w \in DOMAIN user_metadata_by_id \ {u} :
       user_metadata_by_id'[w].total_point = user_metadata_by_id[w].total_point

-----------------------------------------------------------------------------
(* C1 *)

\* C1 as stated (refuted): once voter v has an entry in thread t's vote map, every
\* later vote_thread call by v on t, whatever the choice, the points and the
\* clock, fails with AlreadyVoted and leaves every collection unchanged.
C1_SecondVoteAlwaysAlreadyVoted ==
  [][result'.op = "vote_thread" =>
     \A v \in Users, t \in ThreadIds, c \in ChoiceNumbers, p \in VotePoints :
       (HasVoted(v, t) /\ VoteThread(v, t, c, p))
         => (result'.err = "AlreadyVoted" /\ UNCHANGED store)]_vars

\* C1 amended: once voter v has an entry in thread t's vote map, every later
\* vote_thread call by v on t fails and leaves every collection unchanged; the
\* failure is AlreadyVoted exactly when the six earlier preconditions pass
\* (points > 10, balance > points, thread Open, choice valid), and otherwise it
\* is the earlier precondition's failure: PointTooLow, InsufficientBalance,
\* ThreadClosed or InvalidChoice.
C1_SecondVoteFails ==
  [][result'.op = "vote_thread" =>
     \A v \in Users, t \in ThreadIds, c \in ChoiceNumbers, p \in VotePoints :
       HasVoted(v, t)
         => \/ /\ UNCHANGED store
               /\ result'.err \in {"AlreadyVoted", "PointTooLow", "InsufficientBalance",
                                   "ThreadClosed", "InvalidChoice"}
               /\ result'.ret = << >>
               /\ result'.err = "AlreadyVoted"
                    <=> (p > 10 /\ Balance(v) > p /\ StatusNow(t) = "Open"
                         /\ c \in DOMAIN thread_metadata_by_id[t].choices_map)
            \/ NotVoteThread(v, t, c, p)]_vars

\* a second vote was refused as AlreadyVoted while a vote map holds an entry
C1_Witness ==
  /\ Failed("vote_thread") /\ result.err = "AlreadyVoted"
  /\ \E t \in ThreadIds, v \in Users : HasVoted(v, t)

-----------------------------------------------------------------------------
(* C2 *)

\* C2 as stated (refuted): a successful create_thread lowers the caller's balance
\* by exactly init_point, a successful vote_thread lowers the voter's by exactly
\* points, the balance strictly decreases in both, and no other balance changes.
C2_DebitExactAndStrict ==
  [][/\ Succeeded("create_thread")' =>
        \A u \in Users, req \in CreateRequests, n \in 0..MaxOptions :
          CreateThread(u, req, n)
            => /\ Balance(u)' = Balance(u) - req.init_point
               /\ Balance(u)' < Balance(u)
               /\ OthersKeepBalance(u)
     /\ Succeeded("vote_thread")' =>
        \A v \in Users, t \in ThreadIds, c \in ChoiceNumbers, p \in VotePoints :
          VoteThread(v, t, c, p)
            => /\ Balance(v)' = Balance(v) - p
               /\ Balance(v)' < Balance(v)
               /\ OthersKeepBalance(v)]_vars

\* C2 amended: a successful create_thread lowers the caller's balance by exactly
\* init_point, which is a strict decrease exactly when init_point > 0 (a thread
\* created with init_point = 0 leaves the balance as it was); a successful
\* vote_thread lowers the voter's balance by exactly points and strictly; no
\* other user's balance changes in either.
C2_DebitExact ==
  [][/\ Succeeded("create_thread")' =>
        \A u \in Users, req \in CreateRequests, n \in 0..MaxOptions :
          CreateThread(u, req, n)
            => /\ Balance(u)' = Balance(u) - req.init_point
               /\ Balance(u)' < Balance(u) <=> req.init_point > 0
               /\ Balance(u)' <= Balance(u)
               /\ OthersKeepBalance(u)
     /\ Succeeded("vote_thread")' =>
        \A v \in Users, t \in ThreadIds, c \in ChoiceNumbers, p \in VotePoints :
          VoteThread(v, t, c, p)
            => /\ Balance(v)' = Balance(v) - p
               /\ Balance(v)' < Balance(v)
               /\ OthersKeepBalance(v)]_vars

\* a thread was created with init_point = 0 by a caller whose balance is still
\* the registered one, beside a user who has paid for a vote
C2_Witness ==
  /\ Succeeded("create_thread")
  /\ result.ret[1].init_point = 0
  /\ Balance(result.ret[1].creator_id) \in RegisterPoints
  /\ \E t \in ThreadIds, v \in Users : HasVoted(v, t) /\ Balance(v) < 40

-----------------------------------------------------------------------------
(* C3 *)

\* C3: a create_thread or vote_thread call that fails a precondition writes
\* nothing: user records, thread records, space records and both indexes are
\* the same after the call as before it.
C3_FailedCallWritesNothing ==
  [][(result'.op \in {"create_thread", "vote_thread"} /\ result'.err # "OK")
       => UNCHANGED store]_vars

\* a create_thread was refused for the stake after the caller's earlier checks passed
C3_Witness ==
  /\ Failed("create_thread") /\ result.err = "InsufficientStake"
  /\ thread_metadata_by_id # EmptyMap

-----------------------------------------------------------------------------
(* C4 *)

\* C4: a voter's entry (choice, points) in a thread's vote map is irrevocable:
\* whatever the next operation is, the thread is still stored and the entry is
\* still there with the same choice and points (the map holds one entry per
\* voter).
C4_VoteEntryIrrevocable ==
  [][\A t \in ThreadIds, v \in Users :
       HasVoted(v, t) => /\ HasVoted(v, t)'
                         /\ Votes(t)'[v] = Votes(t)[v]]_vars

\* a thread holding a vote was the target of a refused re-creation
C4_Witness ==
  /\ Failed("create_thread") /\ result.err = "ThreadAlreadyExists"
  /\ \E t \in ThreadIds, v \in Users : HasVoted(v, t)

-----------------------------------------------------------------------------
(* C5 *)

\* the status the specification gives a thread whose window is start < end
WindowStatus(now, start_time, end_time) ==
  IF now <= start_time THEN "Upcoming"
  ELSE IF now < end_time THEN "Open"
  ELSE "Closed"

\* C5: for a stored thread with start_time < end_time get_thread_status returns
\* Upcoming at now <= start_time, Open at start_time < now < end_time and Closed
\* at now >= end_time; for an id that is not stored it fails with ThreadNotFound.
C5_StatusBoundaries ==
  [][result'.op = "get_thread_status" =>
     \A t \in ThreadIds :
       GetThreadStatus(t)
         => IF ~Stored(t)
              THEN result'.err = "ThreadNotFound" /\ result'.ret = << >>
              ELSE thread_metadata_by_id[t].start_time < thread_metadata_by_id[t].end_time
                     => /\ result'.err = "OK"
                        /\ result'.ret =
                             <<ThreadState(WindowStatus(block_timestamp_ms,
                                             thread_metadata_by_id[t].start_time,
                                             thread_metadata_by_id[t].end_time))>>]_vars

\* the status of a thread was read as Upcoming at the very clock value it starts at
C5_Witness ==
  /\ Succeeded("get_thread_status") /\ result.ret = <<ThreadState("Upcoming")>>
  /\ \E t \in ThreadIds : /\ Stored(t)
                          /\ thread_metadata_by_id[t].start_time = block_timestamp_ms
                          /\ thread_metadata_by_id[t].start_time
                               < thread_metadata_by_id[t].end_time
  /\ \A t \in ThreadIds : Stored(t) => thread_metadata_by_id[t].start_time
                                         < thread_metadata_by_id[t].end_time

-----------------------------------------------------------------------------
(* C6 *)

\* C6 as stated (refuted by the code): for every stored thread, whatever its
\* start_time and end_time, get_thread_status returns Upcoming at every clock
\* value now < start_time.
C6_UpcomingBeforeStart ==
  [][result'.op = "get_thread_status" =>
     \A t \in ThreadIds :
       (GetThreadStatus(t) /\ Stored(t)
          /\ block_timestamp_ms < thread_metadata_by_id[t].start_time)
         => result'.ret = <<ThreadState("Upcoming")>>]_vars

-----------------------------------------------------------------------------
(* C7 *)

\* the caller passes every precondition of create_thread but the option count
CallerMayCreate(u, req) ==
  /\ Registered(u)
  /\ user_metadata_by_id[u].role = "Verified"
  /\ Balance(u) > req.init_point
  /\ ~Stored(convert_title_to_id(req.title, u))

\* C7: create_thread by a registered, Verified caller with balance > init_point
\* and an unused thread id succeeds with 2 or 3 options; with 0, 1, 4 or more
\* options it fails with InvalidChoiceCount whoever calls, i.e. the option count
\* is checked before every other precondition.
C7_ChoiceCount ==
  [][result'.op = "create_thread" =>
     \A u \in Users, req \in CreateRequests, n \in 0..MaxOptions :
       \/ /\ (n < 2 \/ n > 3) => (result'.err = "InvalidChoiceCount" /\ UNCHANGED store)
          /\ (n \in {2, 3} /\ CallerMayCreate(u, req))
               => /\ result'.err = "OK"
                  /\ Stored(convert_title_to_id(req.title, u))'
                  /\ result'.ret[1].choices_count = n
          /\ (n \in {2, 3}) => result'.err # "InvalidChoiceCount"
       \/ NotCreateThread(u, req, n)]_vars

\* 4 options (or 1, or none) were refused although nobody is registered, while
\* a caller who passes every other check is about to be
C7_Witness ==
  /\ Failed("create_thread") /\ result.err = "InvalidChoiceCount"
  /\ \E u \in Users, req \in CreateRequests : CallerMayCreate(u, req)
  /\ \E u \in Users : ~Registered(u)

-----------------------------------------------------------------------------
(* C8 *)

SpaceIdOf(t) == convert_title_to_id_no_account(thread_metadata_by_id[t].space_name)
ThreadsOfSpace(space_id) ==
  IF Has(threads_per_space, space_id) THEN SetOf(threads_per_space[space_id]) ELSE {}

\* C8: a create_thread under a space name that already has a SpaceRecord does not
\* fail for that reason and leaves the space records as they are (one record per
\* name, the first one); under a name not seen before it adds exactly the one
\* record for the name; either way the new thread id joins the ids already in
\* that space's index, so two threads created under one new name are both in it.
C8_OneSpaceRecord ==
  [][result'.op = "create_thread" =>
     \A u \in Users, req \in AllRequests, n \in 0..MaxOptions :
       CreateThread(u, req, n)
         => LET space_id == convert_title_to_id_no_account(req.space_name)
                thread_id == convert_title_to_id(req.title, u)
            IN /\ (n \in {2, 3} /\ CallerMayCreate(u, req) /\ Has(space_metadata_by_id, space_id))
                    => result'.err = "OK"
               /\ result'.err = "OK"
                    => /\ IF Has(space_metadata_by_id, space_id)
                            THEN space_metadata_by_id' = space_metadata_by_id
                            ELSE /\ DOMAIN space_metadata_by_id'
                                      = DOMAIN space_metadata_by_id \cup {space_id}
                                 /\ space_metadata_by_id'[space_id].space_name = req.space_name
                                 /\ \A s \in DOMAIN space_metadata_by_id :
                                      space_metadata_by_id'[s] = space_metadata_by_id[s]
                       /\ ThreadsOfSpace(space_id)' = ThreadsOfSpace(space_id) \cup {thread_id}
                       /\ Len(threads_per_space'[space_id])
                            = Cardinality(ThreadsOfSpace(space_id)')]_vars

\* one signer created the second of its two threads under one space name, next
\* to a thread of another signer: one SpaceRecord, all ids in its index
C8_Witness ==
  /\ Succeeded("create_thread")
  /\ Cardinality(DOMAIN thread_metadata_by_id) = 3
  /\ \A t1, t2 \in DOMAIN thread_metadata_by_id :
       /\ thread_metadata_by_id[t1].space_name = thread_metadata_by_id[t2].space_name
       /\ {t1, t2} \subseteq ThreadsOfSpace(SpaceIdOf(t1))
       /\ DOMAIN space_metadata_by_id = {SpaceIdOf(t1)}
  /\ \E t1, t2 \in SpaceThreadIds :
       /\ t1 # t2 /\ Stored(t1) /\ Stored(t2)
       /\ thread_metadata_by_id[t1].creator_id = thread_metadata_by_id[t2].creator_id
       /\ thread_metadata_by_id[t1].space_name = thread_metadata_by_id[t2].space_name
       /\ {t1, t2} \subseteq ThreadsOfSpace(SpaceIdOf(t1))
       /\ DOMAIN space_metadata_by_id = {SpaceIdOf(t1)}

-----------------------------------------------------------------------------
(* C9 *)

\* C9: right after a successful create_thread, get_thread_metadata_by_thread_id
\* on the new id returns the record create_thread returned, field for field, with
\* an empty vote map, empty choice totals and last_id = 0; and
\* get_thread_metadata_by_thread_id returns None for an id no thread is stored
\* under (threads are never removed, so: an id that was never created).
C9_RoundTrip ==
  [][/\ Succeeded("create_thread")' =>
        \A u \in Users, req \in CreateRequests, n \in 0..MaxOptions :
          CreateThread(u, req, n)
            => /\ get_thread_metadata_by_thread_id(Store', convert_title_to_id(req.title, u)).ret
                    = result'.ret
               /\ result'.ret[1].user_votes_map = EmptyMap
               /\ result'.ret[1].choices_rating = EmptyMap
               /\ result'.ret[1].last_id = 0
               /\ result'.ret[1].title = req.title
     /\ result'.op = "get_thread_metadata_by_thread_id" =>
        \A t \in ThreadIds :
          GetThreadMetadata(t)
            => /\ result'.err = "OK"
               /\ ~Stored(t) => result'.ret = << >>
               /\ Stored(t) => result'.ret = <<thread_metadata_by_id[t]>>]_vars

\* a thread was created and what is stored under its id is what was returned,
\* while another id is still not stored
C9_Witness ==
  /\ Succeeded("create_thread")
  /\ Stored(result.ret[1].thread_id)
  /\ thread_metadata_by_id[result.ret[1].thread_id] = result.ret[1]
  /\ \E t \in ThreadIds : ~Stored(t)

-----------------------------------------------------------------------------
(* C10 *)

\* the failure the specification's order of preconditions gives a vote
ExpectedVoteOutcome(v, t, c, p) ==
  IF p <= 10 THEN "PointTooLow"
  ELSE IF ~Registered(v) THEN "UserNotRegistered"
  ELSE IF Balance(v) <= p THEN "InsufficientBalance"
  ELSE IF ~Stored(t) THEN "ThreadNotFound"
  ELSE IF StatusNow(t) = "Upcoming" THEN "ThreadNotOpen"
  ELSE IF StatusNow(t) = "Closed" THEN "ThreadClosed"
  ELSE IF c \notin DOMAIN thread_metadata_by_id[t].choices_map THEN "InvalidChoice"
  ELSE IF HasVoted(v, t) THEN "AlreadyVoted"
  ELSE "OK"

\* C10: vote_thread reports the first failing precondition in the order
\* PointTooLow, UserNotRegistered, InsufficientBalance, ThreadNotFound,
\* ThreadNotOpen / ThreadClosed, InvalidChoice, AlreadyVoted, and succeeds when
\* none fails.
C10_VoteFailureOrder ==
  [][result'.op = "vote_thread" =>
     \A v \in Users, t \in ThreadIds, c \in ChoiceNumbers, p \in VotePoints :
       \/ result'.err = ExpectedVoteOutcome(v, t, c, p)
       \/ NotVoteThread(v, t, c, p)]_vars

\* a registered caller whose balance does not exceed the points was refused with
\* InsufficientBalance although no thread is stored at all
C10_Witness ==
  /\ Failed("vote_thread") /\ result.err = "InsufficientBalance"
  /\ thread_metadata_by_id = EmptyMap
  /\ \E u \in Users : Registered(u)

-----------------------------------------------------------------------------
(* C11 *)

\* the stored threads whose creator is u
ThreadsCreatedBy(u) ==
  {t \in DOMAIN thread_metadata_by_id : thread_metadata_by_id[t].creator_id = u}
\* the ids of the records a page holds
PageIds(page) == {page[i].thread_id : i \in 1..Len(page)}
FirstPage(u) == get_all_threads_per_user_own(Store, u, <<0>>, <<5>>)
SecondPage(u) == get_all_threads_per_user_own(Store, u, <<5>>, <<5>>)

\* C11: on one store (no create_thread between the calls), for a user who owns
\* between 1 and 10 threads, the pages (0, 5) and (5, 5) both succeed, have no
\* thread in common, and the first followed by the second is the record of every
\* id of the user's index in the index's iteration order, which are exactly the
\* stored threads the user created; an omitted start reads as 0 and an omitted
\* limit as 5; and for a user who created no thread the call fails with
\* UserHasNoThreads.
C11_Pagination ==
  \A u \in Users :
    /\ ThreadsCreatedBy(u) = {}
         => \A start \in PageStarts, limit \in PageLimits :
              get_all_threads_per_user_own(Store, u, start, limit).err = "UserHasNoThreads"
    /\ (ThreadsCreatedBy(u) # {} /\ Cardinality(ThreadsCreatedBy(u)) <= 10)
         => /\ FirstPage(u).err = "OK" /\ SecondPage(u).err = "OK"
            /\ PageIds(FirstPage(u).ret) \cap PageIds(SecondPage(u).ret) = {}
            /\ FirstPage(u).ret \o SecondPage(u).ret
                 = [i \in 1..Len(threads_per_user[u]) |->
                      thread_metadata_by_id[threads_per_user[u][i]]]
            /\ PageIds(FirstPage(u).ret) \cup PageIds(SecondPage(u).ret) = ThreadsCreatedBy(u)
            /\ Len(FirstPage(u).ret) + Len(SecondPage(u).ret) = Cardinality(ThreadsCreatedBy(u))
    /\ get_all_threads_per_user_own(Store, u, << >>, << >>) = FirstPage(u)
    /\ get_all_threads_per_user_own(Store, u, << >>, <<5>>) = FirstPage(u)
    /\ get_all_threads_per_user_own(Store, u, <<0>>, << >>) = FirstPage(u)
    /\ get_all_threads_per_user_own(Store, u, <<5>>, << >>) = SecondPage(u)

\* a call has just returned a page of one thread to a user who owns six, while
\* another user owns a thread of the same title
C11_Witness ==
  /\ Succeeded("get_all_threads_per_user_own")
  /\ Cardinality(ThreadsCreatedBy("alice")) = 6
  /\ ThreadsCreatedBy("bob") # {}
  /\ Len(result.ret) = 1
  /\ result.ret = SecondPage("alice").ret
  /\ Len(FirstPage("alice").ret) = 5

-----------------------------------------------------------------------------
(* C12 *)

\* C12: total_point is a u32 and the debits are subtractions on it, which stay in
\* range exactly when the difference is not negative. In every reachable state
\* every balance is 0 or more, and of the calls that can be made in it: a
\* create_thread or vote_thread whose amount is the caller's balance or more does
\* not succeed, and when the amount equals the balance and the checks before the
\* balance check pass, it fails with InsufficientStake or InsufficientBalance; a
\* successful create_thread or vote_thread leaves the caller the old balance less
\* the amount, which is at least 1.
C12_NoOverdraft ==
  /\ \A u \in DOMAIN user_metadata_by_id : Balance(u) >= 0
  /\ \A u \in Users, req \in CreateRequests, n \in 0..MaxOptions :
       LET r == create_thread(Store, u, req, Options(n), block_timestamp_ms)
       IN /\ (Registered(u) /\ Balance(u) <= req.init_point) => r.err # "OK"
          /\ (/\ ChoiceCountOk(Options(n)) /\ Registered(u)
              /\ user_metadata_by_id[u].role = "Verified"
              /\ Balance(u) = req.init_point)
               => r.err = "InsufficientStake"
          /\ r.err = "OK"
               => /\ r.st.user_metadata_by_id[u].total_point = Balance(u) - req.init_point
                  /\ r.st.user_metadata_by_id[u].total_point >= 1
  /\ \A u \in Users, t \in ThreadIds, c \in ChoiceNumbers, p \in VotePoints :
       LET r == vote_thread(Store, u, t, c, p, block_timestamp_ms)
       IN /\ (Registered(u) /\ Balance(u) <= p) => r.err # "OK"
          /\ (PointOk(p) /\ Registered(u) /\ Balance(u) = p)
               => r.err = "InsufficientBalance"
          /\ r.err = "OK"
               => /\ r.st.user_metadata_by_id[u].total_point = Balance(u) - p
                  /\ r.st.user_metadata_by_id[u].total_point >= 1

\* a create_thread has just been rejected for a stake equal to the caller's whole
\* balance, which an earlier successful debit left at the stake
C12_Witness ==
  /\ result.op = "create_thread" /\ result.err = "InsufficientStake"
  /\ \E u \in Users, req \in CreateRequests :
       /\ Registered(u) /\ user_metadata_by_id[u].role = "Verified"
       /\ Balance(u) = req.init_point /\ Balance(u) >= 1
       /\ Stored(convert_title_to_id(req.title, u))

-----------------------------------------------------------------------------
(* C13 *)

\* C13: the clock never goes back, and across every step: a thread enters the
\* store with an empty vote map; the vote map of a stored thread changes only by
\* a vote_thread call made at a clock value strictly between the thread's
\* start_time and end_time, and then by one entry more; it does not change at a
\* clock value at or past end_time; and the vote map of a thread whose end_time is
\* at or before its start_time is empty after every step.
C13_VotesOnlyWhileOpen ==
  [][/\ block_timestamp_ms' >= block_timestamp_ms
     /\ \A t \in DOMAIN thread_metadata_by_id' :
          LET after == thread_metadata_by_id'[t]
          IN IF t \in DOMAIN thread_metadata_by_id
               THEN /\ after.user_votes_map # Votes(t)
                         => /\ result'.op = "vote_thread" /\ result'.err = "OK"
                            /\ after.start_time < block_timestamp_ms
                            /\ block_timestamp_ms < after.end_time
                            /\ \E v \in Users :
                                 /\ ~Has(Votes(t), v)
                                 /\ DOMAIN after.user_votes_map = DOMAIN Votes(t) \cup {v}
                                 /\ \A w \in DOMAIN Votes(t) : after.user_votes_map[w] = Votes(t)[w]
                    /\ block_timestamp_ms >= after.end_time => after.user_votes_map = Votes(t)
                    /\ after.end_time <= after.start_time => after.user_votes_map = EmptyMap
               ELSE after.user_votes_map = EmptyMap]_vars

\* a vote has just been refused at the end_time of a thread that holds a vote,
\* while a thread whose end_time is before its start_time is stored
C13_Witness ==
  /\ result.op = "vote_thread" /\ result.err = "ThreadClosed"
  /\ \E t \in DOMAIN thread_metadata_by_id :
       /\ Votes(t) # EmptyMap
       /\ block_timestamp_ms = thread_metadata_by_id[t].end_time
  /\ \E t \in DOMAIN thread_metadata_by_id :
       thread_metadata_by_id[t].end_time <= thread_metadata_by_id[t].start_time

-----------------------------------------------------------------------------
(* C14 *)

\* C14: in every reachable state every stored thread has choices_count equal to
\* the number of entries of its choice map, that number is 2 or 3, the keys of the
\* choice map are exactly 0..choices_count-1, and every entry of its vote map
\* names a key of the choice map and holds more than 10 points.
C14_ThreadWellFormed ==
  \A t \in DOMAIN thread_metadata_by_id :
    LET thread == thread_metadata_by_id[t]
    IN /\ thread.choices_count = Cardinality(DOMAIN thread.choices_map)
       /\ thread.choices_count \in {2, 3}
       /\ DOMAIN thread.choices_map = 0..(thread.choices_count - 1)
       /\ \A v \in DOMAIN thread.user_votes_map :
            /\ thread.user_votes_map[v][1] \in DOMAIN thread.choices_map
            /\ thread.user_votes_map[v][2] > 10

\* a vote for choice 2 has just been recorded on a thread of three choices, while
\* a thread of two choices is stored
C14_Witness ==
  /\ Succeeded("vote_thread")
  /\ \E t \in DOMAIN thread_metadata_by_id :
       /\ thread_metadata_by_id[t].choices_count = 3
       /\ \E v \in DOMAIN Votes(t) : Votes(t)[v][1] = 2
  /\ \E t \in DOMAIN thread_metadata_by_id : thread_metadata_by_id[t].choices_count = 2

-----------------------------------------------------------------------------
(* C15 *)

\* C15: in every reachable state the choices_rating map of every stored thread is
\* empty, whatever votes the thread holds; and of the vote_thread calls that can
\* be made in a state, one that succeeds leaves the thread's choices_rating as it
\* was when the map holds no total for the choice, and raises that total by the
\* points when it does.
C15_RatingsStayEmpty ==
  /\ \A t \in DOMAIN thread_metadata_by_id :
       thread_metadata_by_id[t].choices_rating = EmptyMap
  /\ \A u \in Users, t \in ThreadIds, c \in ChoiceNumbers, p \in VotePoints :
       LET r == vote_thread(Store, u, t, c, p, block_timestamp_ms)
       IN r.err = "OK"
            => LET before == thread_metadata_by_id[t].choices_rating
                   after == r.st.thread_metadata_by_id[t].choices_rating
               IN IF Has(before, c)
                    THEN after = Put(before, c, before[c] + p)
                    ELSE after = before

\* a thread holds the votes of two voters and no total
C15_Witness ==
  \E t \in DOMAIN thread_metadata_by_id :
    /\ Cardinality(DOMAIN Votes(t)) = 2
    /\ thread_metadata_by_id[t].choices_rating = EmptyMap
    /\ Succeeded("vote_thread")

-----------------------------------------------------------------------------
(* C16 *)

-----------------------------------------------------------------------------
(* C17 *)

\* C17: in every reachable state, the ids in the threads_per_user set of a user
\* are exactly the stored threads whose creator_id is that user, the ids in the
\* threads_per_space set of a space id are exactly the stored threads whose
\* space_name derives that space id, and the space of every stored thread has a
\* record in space_metadata_by_id.
C17_IndexesAgree ==
  /\ \A u \in DOMAIN threads_per_user :
       SetOf(threads_per_user[u]) = ThreadsCreatedBy(u)
  /\ \A t \in DOMAIN thread_metadata_by_id :
       /\ Has(threads_per_user, thread_metadata_by_id[t].creator_id)
       /\ Has(threads_per_space, SpaceIdOf(t))
       /\ Has(space_metadata_by_id, SpaceIdOf(t))
  /\ \A s \in DOMAIN threads_per_space :
       SetOf(threads_per_space[s]) = {t \in DOMAIN thread_metadata_by_id : SpaceIdOf(t) = s}

\* a create_thread has just succeeded; one user owns two threads of one space and
\* another user owns a thread of another space
C17_Witness ==
  /\ Succeeded("create_thread")
  /\ \E u \in Users, w \in Users :
       /\ u # w
       /\ Cardinality(ThreadsCreatedBy(u)) = 2
       /\ \A t \in ThreadsCreatedBy(u) : SpaceIdOf(t) = "general"
       /\ \E t \in ThreadsCreatedBy(w) : SpaceIdOf(t) = "sports"

-----------------------------------------------------------------------------
(* C18 *)

\* the ids in the threads_per_user set of u, none when u has no set
OwnIndex(u) == IF Has(threads_per_user, u) THEN SetOf(threads_per_user[u]) ELSE {}

\* C18: users are registered with threads_owned = 0 and an empty threads_list,
\* and in every reachable state, for every registered user, threads_owned is the
\* length of threads_list, which is the number of ids in the user's
\* threads_per_user set, and no id is in threads_list twice (its ids are those of
\* the set).
C18_OwnedCount ==
  \A u \in DOMAIN user_metadata_by_id :
    LET json_user == user_metadata_by_id[u]
    IN /\ json_user.threads_owned = Len(json_user.threads_list)
       /\ Len(json_user.threads_list) = Cardinality(OwnIndex(u))
       /\ Cardinality(SetOf(json_user.threads_list)) = Len(json_user.threads_list)
       /\ SetOf(json_user.threads_list) = OwnIndex(u)

\* a create_thread has just succeeded for a user who now owns six threads, while
\* another registered user owns none
C18_Witness ==
  /\ Succeeded("create_thread")
  /\ \E u \in DOMAIN user_metadata_by_id, w \in DOMAIN user_metadata_by_id :
       /\ user_metadata_by_id[u].threads_owned = 6
       /\ result.ret[1].creator_id = u
       /\ user_metadata_by_id[w].threads_owned = 0

-----------------------------------------------------------------------------
(* C19 *)

\* C19: across every step (a call of create_thread, vote_thread, end_thread or a
\* query, a registration of another user, or the clock moving) every registered
\* user stays registered with a balance not above the one before; and a step that
\* is an end_thread call, for a stored or an unknown thread id at any clock
\* value, returns nothing without failing and leaves every user, thread, space
\* and index as it was.
C19_NeverReplenished ==
  [][/\ \A u \in DOMAIN user_metadata_by_id :
          /\ u \in DOMAIN user_metadata_by_id'
          /\ user_metadata_by_id'[u].total_point <= Balance(u)
     /\ Called("end_thread")
          => /\ result'.err = "OK"
             /\ result'.ret = << >>
             /\ store' = store]_vars

\* end_thread has just been called at the end_time of a stored thread that holds a
\* vote and whose creator paid a stake
C19_Witness ==
  /\ Succeeded("end_thread")
  /\ \E t \in DOMAIN thread_metadata_by_id :
       /\ Votes(t) # EmptyMap
       /\ thread_metadata_by_id[t].init_point > 0
       /\ block_timestamp_ms >= thread_metadata_by_id[t].end_time
       /\ \E p \in RegisterPoints : Balance(thread_metadata_by_id[t].creator_id) < p

-----------------------------------------------------------------------------
(* C20 *)

\* the sum of f over the elements of S
RECURSIVE SumOver(_, _)
SumOver(f, S) ==
  IF S = {} THEN 0
  ELSE LET x == CHOOSE x \in S : TRUE IN f[x] + SumOver(f, S \ {x})

\* the init_point of the stored threads u created, summed
Staked(u) ==
  SumOver([t \in ThreadsCreatedBy(u) |-> thread_metadata_by_id[t].init_point],
          ThreadsCreatedBy(u))
\* the points of u's vote entries over all stored threads, summed
Committed(u) ==
  LET voted == {t \in DOMAIN thread_metadata_by_id : Has(Votes(t), u)}
  IN SumOver([t \in voted |-> Votes(t)[u][2]], voted)

\* C20: in every reachable state, for every registered user, the balance the
\* user was registered with equals the user's balance now, plus the init_point of
\* every stored thread the user created, plus the points of every vote entry the
\* user has in any stored thread.
C20_PointsAccounted ==
  \A u \in DOMAIN user_metadata_by_id :
    \E total_point \in RegisterPoints :
      total_point = Balance(u) + Staked(u) + Committed(u)

\* a vote has just been recorded; one user has paid a stake and a vote, another
\* user, who created a thread for no stake, a vote
C20_Witness ==
  /\ Succeeded("vote_thread")
  /\ \E u \in DOMAIN user_metadata_by_id, w \in DOMAIN user_metadata_by_id :
       /\ Staked(u) > 0 /\ Committed(u) > 0 /\ Balance(u) > 0
       /\ ThreadsCreatedBy(w) # {} /\ Staked(w) = 0 /\ Committed(w) > 0

====
